---- MODULE Spec2Model ----
(***************************************************************************)
(* Model of src/src/core/core.interaction.js: the hit-testing engine that  *)
(* resolves a pointer position to a list of {element, datasetIndex, index} *)
(* matches under the modes index, dataset, point, nearest, x and y.        *)
(*                                                                         *)
(* Indices are 0-based as in the source; TLA+ sequences are 1-based, so    *)
(* data[j] of the source is data[j + 1] here.                              *)
(***************************************************************************)
EXTENDS Integers, Sequences, FiniteSets

VARIABLES chart, event, call, items, range

vars == <<chart, event, call, items, range>>

(***************************************************************************)
(* Bounds of the model.                                                    *)
(***************************************************************************)
\* Largest pixel coordinate of an element; the chart area is the square
\* 0..MaxCoord x 0..MaxCoord.
MaxCoord == 2
\* Largest number of elements of a chart in the mode specifications.
MaxElements == 2
\* Largest number of elements of the dataset in the search-range specification.
MaxKeys == 3
\* Largest number of elements of the single sorted dataset of a mode chart.
MaxSorted == 3
\* Largest half-size an element reports from getRange.
MaxRange == 1

\* Number.POSITIVE_INFINITY, the initial minDistance of getNearestItems.
Infinity == -1

\* position['xy'] of optimizedEvaluateItems: no such property. It is a string
\* here so that any arithmetic on it cannot be evaluated.
Undefined == "undefined"

\* An unset options.axis (falsy, replaced by the mode's default).
NoAxis == ""

Abs(n) == IF n < 0 THEN -n ELSE n

(***************************************************************************)
(* External collaborators (helpers.canvas, helpers.collection, elements).  *)
(***************************************************************************)
\* _isPointInArea(point, area).
isPointInArea(point, area) ==
    /\ point.x >= area.left
    /\ point.x <= area.right
    /\ point.y >= area.top
    /\ point.y <= area.bottom

\* table[i][key] for key 'x' or 'y'.
Key(el, axis) == IF axis = "x" THEN el.x ELSE el.y

Clamp(n, lo, hi) == IF n < lo THEN lo ELSE IF n > hi THEN hi ELSE n

\* _lookupByKey(table, key, value) over a non-empty table whose keys ascend: a
\* binary search to the two neighbouring indices around the first key that is
\* not below value (the first or the last two when every key is on one side),
\* with hi moved up to the last key equal to value, so that the range holds
\* every element that ties on value.
lookupByKey(table, key, value) ==
    LET len == Len(table)
        below == Cardinality({i \in 1..len : Key(table[i], key) < value})
        upto == Cardinality({i \in 1..len : Key(table[i], key) <= value})
        lo == IF len < 2 THEN 0 ELSE Clamp(below - 1, 0, len - 2)
        hi == IF len < 2 THEN len - 1 ELSE lo + 1
    IN  [lo |-> lo, hi |-> IF upto - 1 > hi THEN upto - 1 ELSE hi]

\* _rlookupByKey(table, key, value): the same over keys that descend; the two
\* neighbouring indices are those around the last key that is not below
\* value, and lo is moved down to the first key equal to value.
rlookupByKey(table, key, value) ==
    LET len == Len(table)
        above == Cardinality({i \in 1..len : Key(table[i], key) > value})
        downto == Cardinality({i \in 1..len : Key(table[i], key) >= value})
        lo == IF len < 2 THEN 0 ELSE Clamp(downto - 1, 0, len - 2)
        hi == IF len < 2 THEN len - 1 ELSE lo + 1
    IN  [lo |-> IF above < downto /\ above < lo THEN above ELSE lo, hi |-> hi]

\* element.getCenterPoint().
getCenterPoint(el) == [x |-> el.x, y |-> el.y]

\* typeof el.getRange === 'function' && el.getRange(axis), as the truth value
\* the source tests: el.range is {} when the element reports no range and
\* {r} when it reports the number r; 0 is falsy.
RangeIsTruthy(el) == el.range # {} /\ el.range # {0}

RangeValue(el) == CHOOSE r \in el.range : TRUE

(***************************************************************************)
(* core.interaction.js                                                     *)
(***************************************************************************)
\* getRelativePosition(e, chart) for an event that carries 'native'.
getRelativePosition(e) == [x |-> e.x, y |-> e.y]

Match(el, datasetIndex, index) ==
    [element |-> el, datasetIndex |-> datasetIndex, index |-> index]

\* The handler calls of one dataset for j = lo .. hi, skipped elements left out.
RECURSIVE VisitRange(_, _, _)
VisitRange(meta, lo, hi) ==
    IF lo > hi THEN <<>>
    ELSE (IF meta.data[lo + 1].skip THEN <<>>
          ELSE <<Match(meta.data[lo + 1], meta.index, lo)>>)
         \o VisitRange(meta, lo + 1, hi)

\* evaluateAllVisibleItems(chart, handler): the sequence of handler calls.
RECURSIVE EvaluateFrom(_, _)
EvaluateFrom(metasets, i) ==
    IF i > Len(metasets) THEN <<>>
    ELSE VisitRange(metasets[i], 0, Len(metasets[i].data) - 1)
         \o EvaluateFrom(metasets, i + 1)

evaluateAllVisibleItems(c) == EvaluateFrom(c.metas, 1)

FullRange(data) == [lo |-> 0, hi |-> Len(data) - 1]

\* lookupMethod(data, axis, value): _rlookupByKey when the index scale
\* reverses pixels, _lookupByKey otherwise.
lookupMethod(iScale, data, axis, value) ==
    IF iScale.reversePixels THEN rlookupByKey(data, axis, value)
    ELSE lookupByKey(data, axis, value)

\* The ranged search of binarySearch for a truthy range of the first element.
RangedSearch(iScale, data, axis, value) ==
    LET r == RangeValue(data[1])
        start == lookupMethod(iScale, data, axis, value - r)
        end == lookupMethod(iScale, data, axis, value + r)
    IN  [lo |-> start.lo, hi |-> end.hi]

\* binarySearch without its test of _sorted.
binarySearchNoSortedTest(metaset, axis, value, intersect) ==
    LET data == metaset.data
        iScale == metaset.iScale
    IN  IF iScale.axis # "none" /\ axis = iScale.axis /\ Len(data) > 0
        THEN IF ~intersect THEN lookupMethod(iScale, data, axis, value)
             ELSE IF metaset.sharedOptions /\ RangeIsTruthy(data[1])
             THEN RangedSearch(iScale, data, axis, value)
             ELSE FullRange(data)
        ELSE FullRange(data)

\* binarySearch falling back to the exact-value lookup when intersect is set
\* and the ranged search is not available.
binarySearchExactFallback(metaset, axis, value, intersect) ==
    LET data == metaset.data
        iScale == metaset.iScale
    IN  IF iScale.axis # "none" /\ axis = iScale.axis /\ metaset.sorted /\ Len(data) > 0
        THEN IF ~intersect THEN lookupMethod(iScale, data, axis, value)
             ELSE IF metaset.sharedOptions /\ RangeIsTruthy(data[1])
             THEN RangedSearch(iScale, data, axis, value)
             ELSE lookupMethod(iScale, data, axis, value)
        ELSE FullRange(data)

\* binarySearch(metaset, axis, value, intersect).
binarySearch(metaset, axis, value, intersect) ==
    LET data == metaset.data
        iScale == metaset.iScale
    IN  IF iScale.axis # "none" /\ axis = iScale.axis /\ metaset.sorted /\ Len(data) > 0
        THEN IF ~intersect THEN lookupMethod(iScale, data, axis, value)
             ELSE IF metaset.sharedOptions /\ RangeIsTruthy(data[1])
             THEN RangedSearch(iScale, data, axis, value)
             ELSE FullRange(data)
        ELSE FullRange(data)

\* position[axis].
PositionValue(position, axis) ==
    IF axis = "x" THEN position.x
    ELSE IF axis = "y" THEN position.y
    ELSE Undefined

\* optimizedEvaluateItems(chart, axis, position, handler, intersect): the
\* sequence of handler calls.
RECURSIVE OptimizedFrom(_, _, _, _, _)
OptimizedFrom(metasets, i, axis, value, intersect) ==
    IF i > Len(metasets) THEN <<>>
    ELSE LET r == binarySearch(metasets[i], axis, value, intersect)
         IN  VisitRange(metasets[i], r.lo, r.hi)
             \o OptimizedFrom(metasets, i + 1, axis, value, intersect)

optimizedEvaluateItems(c, axis, position, intersect) ==
    OptimizedFrom(c.metas, 1, axis, PositionValue(position, axis), intersect)

\* getDistanceMetricForAxis(axis)(pt1, pt2), squared: the source returns
\* Math.sqrt of this integer, and only compares distances, with < and ===,
\* which the square root preserves on these values.
distanceMetric(axis, pt1, pt2) ==
    LET useX == axis \in {"x", "xy"}
        useY == axis \in {"y", "xy"}
        deltaX == IF useX THEN Abs(pt1.x - pt2.x) ELSE 0
        deltaY == IF useY THEN Abs(pt1.y - pt2.y) ELSE 0
    IN  deltaX * deltaX + deltaY * deltaY

\* getIntersectItems(chart, position, axis).
getIntersectItems(c, position, axis) ==
    IF ~isPointInArea(position, c.chartArea) THEN <<>>
    ELSE SelectSeq(optimizedEvaluateItems(c, axis, position, TRUE),
                   LAMBDA m : m.element.inRange)

\* NearestFold keeping only the first of the candidates at the minimum.
RECURSIVE NearestFoldFirstOnly(_, _, _, _, _, _)
NearestFoldFirstOnly(visited, k, acc, position, axis, intersect) ==
    IF k > Len(visited) THEN acc
    ELSE LET m == visited[k]
             distance == distanceMetric(axis, position, getCenterPoint(m.element))
             next ==
                 IF intersect /\ ~m.element.inRange THEN acc
                 ELSE IF acc.minDistance = Infinity \/ distance < acc.minDistance
                 THEN [items |-> <<m>>, minDistance |-> distance]
                 ELSE acc
         IN  NearestFoldFirstOnly(visited, k + 1, next, position, axis, intersect)

\* evaluationFunc of getNearestItems applied to the handler calls in order;
\* acc is [items, minDistance].
RECURSIVE NearestFold(_, _, _, _, _, _)
NearestFold(visited, k, acc, position, axis, intersect) ==
    IF k > Len(visited) THEN acc
    ELSE LET m == visited[k]
             distance == distanceMetric(axis, position, getCenterPoint(m.element))
             next ==
                 IF intersect /\ ~m.element.inRange THEN acc
                 ELSE IF acc.minDistance = Infinity \/ distance < acc.minDistance
                 THEN [items |-> <<m>>, minDistance |-> distance]
                 ELSE IF distance = acc.minDistance
                 THEN [items |-> Append(acc.items, m), minDistance |-> acc.minDistance]
                 ELSE acc
         IN  NearestFold(visited, k + 1, next, position, axis, intersect)

\* getNearestItems(chart, position, axis, intersect). The traversal is called
\* without its intersect argument, so every range is the non-intersect one.
getNearestItems(c, position, axis, intersect) ==
    IF ~isPointInArea(position, c.chartArea) THEN <<>>
    ELSE NearestFold(optimizedEvaluateItems(c, axis, position, FALSE), 1,
                     [items |-> <<>>, minDistance |-> Infinity],
                     position, axis, intersect).items

\* options.axis || dflt.
AxisOr(options, dflt) == IF options.axis = NoAxis THEN dflt ELSE options.axis

\* chart.getDatasetMeta(datasetIndex), for the index of a visible dataset.
getDatasetMeta(c, datasetIndex) ==
    c.metas[CHOOSE i \in 1..Len(c.metas) : c.metas[i].index = datasetIndex]

\* IndexCollect without its test of skip.
RECURSIVE IndexCollectNoSkipTest(_, _, _)
IndexCollectNoSkipTest(metasets, i, index) ==
    IF i > Len(metasets) THEN <<>>
    ELSE LET meta == metasets[i]
         IN  (IF index + 1 <= Len(meta.data)
              THEN <<Match(meta.data[index + 1], meta.index, index)>>
              ELSE <<>>)
             \o IndexCollectNoSkipTest(metasets, i + 1, index)

\* The forEach of modes.index over the visible metas, from the i-th on.
RECURSIVE IndexCollect(_, _, _)
IndexCollect(metasets, i, index) ==
    IF i > Len(metasets) THEN <<>>
    ELSE LET meta == metasets[i]
         IN  (IF index + 1 <= Len(meta.data) /\ ~meta.data[index + 1].skip
              THEN <<Match(meta.data[index + 1], meta.index, index)>>
              ELSE <<>>)
             \o IndexCollect(metasets, i + 1, index)

\* modes.index(chart, e, options).
ModeIndex(c, e, options) ==
    LET position == getRelativePosition(e)
        axis == AxisOr(options, "x")
        its == IF options.intersect THEN getIntersectItems(c, position, axis)
               ELSE getNearestItems(c, position, axis, FALSE)
    IN  IF Len(its) = 0 THEN <<>>
        ELSE IndexCollect(c.metas, 1, its[1].index)

\* modes.dataset reading the dataset of the first match from the list of
\* visible metas, at the place datasetIndex.
ModeDatasetByListPosition(c, e, options) ==
    LET position == getRelativePosition(e)
        axis == AxisOr(options, "xy")
        its == IF options.intersect THEN getIntersectItems(c, position, axis)
               ELSE getNearestItems(c, position, axis, FALSE)
    IN  IF Len(its) > 0
        THEN LET datasetIndex == its[1].datasetIndex
                 data == c.metas[datasetIndex + 1].data
             IN  [i \in 1..Len(data) |-> Match(data[i], datasetIndex, i - 1)]
        ELSE its

\* modes.dataset(chart, e, options).
ModeDataset(c, e, options) ==
    LET position == getRelativePosition(e)
        axis == AxisOr(options, "xy")
        its == IF options.intersect THEN getIntersectItems(c, position, axis)
               ELSE getNearestItems(c, position, axis, FALSE)
    IN  IF Len(its) > 0
        THEN LET datasetIndex == its[1].datasetIndex
                 data == getDatasetMeta(c, datasetIndex).data
             IN  [i \in 1..Len(data) |-> Match(data[i], datasetIndex, i - 1)]
        ELSE its

\* modes.point(chart, e, options).
ModePoint(c, e, options) ==
    getIntersectItems(c, getRelativePosition(e), AxisOr(options, "xy"))

\* modes.nearest(chart, e, options).
ModeNearest(c, e, options) ==
    getNearestItems(c, getRelativePosition(e), AxisOr(options, "xy"), options.intersect)

\* modes.x returning, when intersect is set, only the elements that intersect.
ModeXOnlyIntersecting(c, e, options) ==
    LET visited == evaluateAllVisibleItems(c)
    IN  SelectSeq(visited, LAMBDA m : m.element.inXRange
                                      /\ (options.intersect => m.element.inRange))

\* modes.x(chart, e, options).
ModeX(c, e, options) ==
    LET visited == evaluateAllVisibleItems(c)
        its == SelectSeq(visited, LAMBDA m : m.element.inXRange)
        intersectsItem == \E k \in 1..Len(visited) : visited[k].element.inRange
    IN  IF options.intersect /\ ~intersectsItem THEN <<>> ELSE its

\* modes.y(chart, e, options).
ModeY(c, e, options) ==
    LET visited == evaluateAllVisibleItems(c)
        its == SelectSeq(visited, LAMBDA m : m.element.inYRange)
        intersectsItem == \E k \in 1..Len(visited) : visited[k].element.inRange
    IN  IF options.intersect /\ ~intersectsItem THEN <<>> ELSE its

(***************************************************************************)
(* The charts, events and options the operations are applied to.  A chart  *)
(* is the list of its visible dataset metas, in visibility order, and its  *)
(* chart area.  An element's inRange, inXRange and inYRange fields are its *)
(* answers at the position of the event.                                   *)
(***************************************************************************)
Coords == 0..MaxCoord

ChartArea == [left |-> 0, top |-> 0, right |-> MaxCoord, bottom |-> MaxCoord]

Options == [axis : {NoAxis, "x", "y", "xy"}, intersect : BOOLEAN]

NoScale == [axis |-> "none", reversePixels |-> FALSE]

Scale(axis, reversePixels) == [axis |-> axis, reversePixels |-> reversePixels]

\* A dataset flagged _sorted has its keys along the index axis in pixel
\* order: ascending, or descending when the index scale reverses pixels.
SortedAlong(data, iScale) ==
    \A i \in 1..Len(data) - 1 :
        IF iScale.reversePixels
        THEN Key(data[i], iScale.axis) >= Key(data[i + 1], iScale.axis)
        ELSE Key(data[i], iScale.axis) <= Key(data[i + 1], iScale.axis)

WellFormed(meta) ==
    (meta.sorted /\ meta.iScale.axis # "none") => SortedAlong(meta.data, meta.iScale)

Idle == [mode |-> "idle", options |-> [axis |-> NoAxis, intersect |-> FALSE], meta |-> 0]

NoRange == [lo |-> 0, hi |-> 0]

\* Search-range charts: one dataset of up to MaxKeys elements of one size,
\* laid out along the x axis or along the y axis.
RangeElements(axis, rng) ==
    IF axis = "y"
    THEN [x : {0}, y : Coords, skip : {FALSE}, inRange : {FALSE}, inXRange : {FALSE},
          inYRange : {FALSE}, range : {rng}]
    ELSE [x : Coords, y : {0}, skip : {FALSE}, inRange : {FALSE}, inXRange : {FALSE},
          inYRange : {FALSE}, range : {rng}]

RangeScales == {NoScale} \cup {Scale(a, r) : a \in {"x", "y"}, r \in BOOLEAN}

ElementRanges == {{}} \cup {{r} : r \in 0..MaxRange}

InitRange ==
    /\ \E iScale \in RangeScales, rng \in ElementRanges, n \in 0..MaxKeys,
          sorted \in BOOLEAN, sharedOptions \in BOOLEAN :
          \E data \in [1..n -> RangeElements(iScale.axis, rng)] :
             LET meta == [index |-> 0, data |-> data, sorted |-> sorted,
                          sharedOptions |-> sharedOptions, iScale |-> iScale]
             IN  /\ WellFormed(meta)
                 /\ chart = [metas |-> <<meta>>, chartArea |-> ChartArea]
    /\ \E v \in -1..MaxCoord + 1 : event = [x |-> v, y |-> v]
    /\ call = Idle
    /\ items = <<>>
    /\ range = NoRange

\* Mode charts: two visible datasets, in either visibility order, of at most
\* MaxElements elements together. The elements of dataset d lie on the row
\* y = d; each is plain, hit by the position, or skipped.
Kinds == {[skip |-> FALSE, inRange |-> FALSE], [skip |-> FALSE, inRange |-> TRUE],
          [skip |-> TRUE, inRange |-> FALSE]}

ModeElements(row, rng) ==
    {[x |-> x, y |-> row, skip |-> k.skip, inRange |-> k.inRange,
      inXRange |-> k.inRange, inYRange |-> k.inRange, range |-> rng]
     : x \in Coords, k \in Kinds}

\* The index scale, the _sorted and _sharedOptions flags and the element
\* range of a chart's datasets.
Layouts ==
    {[iScale |-> NoScale, sorted |-> FALSE, sharedOptions |-> FALSE, range |-> {}],
     [iScale |-> Scale("x", FALSE), sorted |-> TRUE, sharedOptions |-> FALSE, range |-> {}],
     [iScale |-> Scale("x", TRUE), sorted |-> TRUE, sharedOptions |-> FALSE, range |-> {}],
     [iScale |-> Scale("x", FALSE), sorted |-> TRUE, sharedOptions |-> TRUE, range |-> {1}]}

ModeLayouts == {l \in Layouts : ~l.sharedOptions}

SortedLayouts == {l \in Layouts : l.sorted}

MetaOf(idx, data, layout) ==
    [index |-> idx, data |-> data, sorted |-> layout.sorted,
     sharedOptions |-> layout.sharedOptions, iScale |-> layout.iScale]

InitModes ==
    /\ \E layout \in ModeLayouts, n0 \in 0..MaxElements, first \in {0, 1} :
          \E n1 \in 0..(MaxElements - n0) :
             \E d0 \in [1..n0 -> ModeElements(0, layout.range)],
                d1 \in [1..n1 -> ModeElements(1, layout.range)] :
                LET m0 == MetaOf(0, d0, layout)
                    m1 == MetaOf(1, d1, layout)
                IN  /\ WellFormed(m0)
                    /\ WellFormed(m1)
                    /\ chart = [metas |-> IF first = 0 THEN <<m0, m1>> ELSE <<m1, m0>>,
                                chartArea |-> ChartArea]
    /\ event \in [x : 0..MaxCoord + 1, y : {0}]
    /\ call = Idle
    /\ items = <<>>
    /\ range = NoRange

\* Mode charts with one sorted dataset of up to MaxSorted elements, long
\* enough for a lookup to cut the traversal, beside an empty one.
InitSorted ==
    /\ \E layout \in SortedLayouts, n \in 0..MaxSorted :
          \E d0 \in [1..n -> ModeElements(0, layout.range)] :
             LET m0 == MetaOf(0, d0, layout)
             IN  /\ WellFormed(m0)
                 /\ chart = [metas |-> <<m0, MetaOf(1, <<>>, layout)>>,
                             chartArea |-> ChartArea]
    /\ event \in [x : 0..MaxCoord + 1, y : {0}]
    /\ call = Idle
    /\ items = <<>>
    /\ range = NoRange

InitCharts == InitModes \/ InitSorted

\* Axis charts, for the modes x and y: every combination of an element's
\* answers to inRange, inXRange and inYRange, or a skipped element.
AxisKinds ==
    [skip : {FALSE}, inRange : BOOLEAN, inXRange : BOOLEAN, inYRange : BOOLEAN]
    \cup {[skip |-> TRUE, inRange |-> TRUE, inXRange |-> TRUE, inYRange |-> TRUE]}

AxisElements(row) ==
    {[x |-> 0, y |-> row, skip |-> k.skip, inRange |-> k.inRange,
      inXRange |-> k.inXRange, inYRange |-> k.inYRange, range |-> {}]
     : k \in AxisKinds}

InitAxis ==
    /\ \E n0 \in 0..MaxElements :
          \E n1 \in 0..(MaxElements - n0) :
             \E d0 \in [1..n0 -> AxisElements(0)], d1 \in [1..n1 -> AxisElements(1)] :
                chart = [metas |-> <<MetaOf(0, d0, [iScale |-> NoScale, sorted |-> FALSE,
                                                    sharedOptions |-> FALSE]),
                                     MetaOf(1, d1, [iScale |-> NoScale, sorted |-> FALSE,
                                                    sharedOptions |-> FALSE])>>,
                         chartArea |-> ChartArea]
    /\ event \in [x : {0, MaxCoord + 1}, y : {0}]
    /\ call = Idle
    /\ items = <<>>
    /\ range = NoRange

(***************************************************************************)
(* One action per operation; each chart is queried once.                   *)
(***************************************************************************)
\* binarySearch for the i-th visible dataset, called as optimizedEvaluateItems
\* calls it: value is position[axis].
SearchRange ==
    /\ call.mode = "idle"
    /\ \E i \in 1..Len(chart.metas), axis \in {"x", "y", "xy"}, intersect \in BOOLEAN :
          /\ call' = [mode |-> "searchRange",
                      options |-> [axis |-> axis, intersect |-> intersect],
                      meta |-> i]
          /\ range' = binarySearch(chart.metas[i], axis,
                                   PositionValue(getRelativePosition(event), axis),
                                   intersect)
    /\ UNCHANGED <<chart, event, items>>

Index ==
    /\ call.mode = "idle"
    /\ \E options \in Options :
          /\ call' = [mode |-> "index", options |-> options, meta |-> 0]
          /\ items' = ModeIndex(chart, event, options)
    /\ UNCHANGED <<chart, event, range>>

Dataset ==
    /\ call.mode = "idle"
    /\ \E options \in Options :
          /\ call' = [mode |-> "dataset", options |-> options, meta |-> 0]
          /\ items' = ModeDataset(chart, event, options)
    /\ UNCHANGED <<chart, event, range>>

Point ==
    /\ call.mode = "idle"
    /\ \E options \in Options :
          /\ call' = [mode |-> "point", options |-> options, meta |-> 0]
          /\ items' = ModePoint(chart, event, options)
    /\ UNCHANGED <<chart, event, range>>

Nearest ==
    /\ call.mode = "idle"
    /\ \E options \in Options :
          /\ call' = [mode |-> "nearest", options |-> options, meta |-> 0]
          /\ items' = ModeNearest(chart, event, options)
    /\ UNCHANGED <<chart, event, range>>

X ==
    /\ call.mode = "idle"
    /\ \E options \in Options :
          /\ call' = [mode |-> "x", options |-> options, meta |-> 0]
          /\ items' = ModeX(chart, event, options)
    /\ UNCHANGED <<chart, event, range>>

Y ==
    /\ call.mode = "idle"
    /\ \E options \in Options :
          /\ call' = [mode |-> "y", options |-> options, meta |-> 0]
          /\ items' = ModeY(chart, event, options)
    /\ UNCHANGED <<chart, event, range>>

Init == InitCharts \/ InitAxis \/ InitRange

Next == SearchRange \/ Index \/ Dataset \/ Point \/ Nearest \/ X \/ Y

\* Every operation on every chart of the model.
Spec == Init /\ [][Next]_vars

\* The operations one by one, each on the charts that exercise it.
SpecRange == InitRange /\ [][SearchRange]_vars

SpecNearest == InitCharts /\ [][Nearest]_vars

SpecIndex == InitCharts /\ [][Index]_vars

SpecDataset == InitCharts /\ [][Dataset]_vars

NextAxis == X \/ Y

SpecAxis == InitAxis /\ [][NextAxis]_vars

(***************************************************************************)
(* Properties.                                                             *)
(***************************************************************************)
Position == getRelativePosition(event)

InArea == isPointInArea(Position, chart.chartArea)

Metas == chart.metas

ModeNames == {"index", "dataset", "point", "nearest", "x", "y"}

ItemSet == {items[n] : n \in 1..Len(items)}

NoDuplicates == Cardinality(ItemSet) = Len(items)

\* The matches of the elements of the i-th visible dataset at the 1-based
\* places J.
MatchesAt(i, J) == {Match(Metas[i].data[j], Metas[i].index, j - 1) : j \in J}

\* Every non-skipped element of every visible dataset.
VisibleMatches ==
    UNION {MatchesAt(i, {j \in 1..Len(Metas[i].data) : ~Metas[i].data[j].skip})
           : i \in 1..Len(Metas)}

Dist(axis, m) == distanceMetric(axis, Position, getCenterPoint(m.element))

AtMinimum(axis, S) == {c \in S : \A d \in S : Dist(axis, c) <= Dist(axis, d)}

\* C1: no Match of a mode's result refers to an element whose skip flag is
\* set.
C1_SkipInvariant ==
    call.mode \in ModeNames => \A n \in 1..Len(items) : ~items[n].element.skip

\* C2: in every mode, a position outside the chart area gives the empty
\* result.
C2_AreaGating ==
    (call.mode \in ModeNames /\ ~InArea) => items = <<>>

\* The candidates nearest mode visits: the non-skipped elements in the
\* traversed range of each visible dataset, those in range only when
\* intersect is set.
NearestCandidates(axis, intersect) ==
    UNION {LET r == binarySearch(Metas[i], axis, PositionValue(Position, axis), FALSE)
           IN  MatchesAt(i, {j \in 1..Len(Metas[i].data) :
                               /\ r.lo <= j - 1
                               /\ j - 1 <= r.hi
                               /\ ~Metas[i].data[j].skip
                               /\ (intersect => Metas[i].data[j].inRange)})
           : i \in 1..Len(Metas)}

\* C3: inside the chart area the result of nearest mode is exactly the set of
\* visited candidates at the minimum distance, each once.
C3_TieCompleteness ==
    (call.mode = "nearest" /\ InArea) =>
        LET axis == AxisOr(call.options, "xy")
        IN  /\ ItemSet = AtMinimum(axis, NearestCandidates(axis, call.options.intersect))
            /\ NoDuplicates

\* C3's case: two candidates of different datasets tie at the minimum and both
\* are returned.
C3_Witness ==
    /\ call.mode = "nearest"
    /\ Len(items) = 2
    /\ items[1].datasetIndex # items[2].datasetIndex

\* The search that index and dataset mode start with.
FirstSearch(dflt) ==
    LET axis == AxisOr(call.options, dflt)
    IN  IF call.options.intersect THEN getIntersectItems(chart, Position, axis)
        ELSE getNearestItems(chart, Position, axis, FALSE)

HasAt(i, k) == k < Len(Metas[i].data) /\ ~Metas[i].data[k + 1].skip

\* C4: index mode returns nothing when its search finds nothing; otherwise,
\* with k the index of the first match, one Match of index k for each
\* visible dataset that has a non-skipped element at k, in visibility order,
\* and nothing else.
C4_IndexAlignment ==
    call.mode = "index" =>
        IF FirstSearch("x") = <<>> THEN items = <<>>
        ELSE LET k == FirstSearch("x")[1].index
                 present == {i \in 1..Len(Metas) : HasAt(i, k)}
             IN  /\ Len(items) = Cardinality(present)
                 /\ \A i \in present :
                       items[Cardinality({j \in present : j <= i})]
                           = Match(Metas[i].data[k + 1], Metas[i].index, k)

\* C4's case: the search finds one element, both datasets have a non-skipped
\* element at its index, and both are returned, the dataset listed first
\* (dataset 1) first.
C4_Witness ==
    /\ call.mode = "index"
    /\ Len(FirstSearch("x")) = 1
    /\ Len(items) = 2
    /\ items[1].datasetIndex = 1

\* The elements nothing but skip excludes from x and y mode, and whether any
\* of them intersects the position.
AnyIntersects == \E m \in VisibleMatches : m.element.inRange

Gated(expected) ==
    IF call.options.intersect /\ ~AnyIntersects THEN items = <<>>
    ELSE ItemSet = expected /\ NoDuplicates

\* C5: in x and y mode with intersect set and no non-skipped element in range
\* the result is empty; otherwise it is every non-skipped visible element
\* that passes the axis-range test, each once.
C5_IntersectGating ==
    /\ call.mode = "x" => Gated({m \in VisibleMatches : m.element.inXRange})
    /\ call.mode = "y" => Gated({m \in VisibleMatches : m.element.inYRange})

\* C5's case: x mode with intersect set returns an element that passes
\* inXRange and is not itself in range, because another element is.
C5_Witness ==
    /\ call.mode = "x"
    /\ call.options.intersect
    /\ Len(items) = 2
    /\ ~items[1].element.inRange
    /\ items[2].element.inRange

\* C6: dataset mode returns nothing when its search finds nothing; otherwise,
\* with d the dataset of the first match, every Match has datasetIndex d and
\* holds the element of dataset d at its index, every non-skipped element of
\* dataset d appears exactly once, and the indices increase.
C6_WholeDataset ==
    call.mode = "dataset" =>
        IF FirstSearch("xy") = <<>> THEN items = <<>>
        ELSE LET d == FirstSearch("xy")[1].datasetIndex
                 data == (CHOOSE m \in {Metas[i] : i \in 1..Len(Metas)} : m.index = d).data
             IN  /\ \A n \in 1..Len(items) :
                       /\ items[n].datasetIndex = d
                       /\ items[n].index \in 0..Len(data) - 1
                       /\ items[n].element = data[items[n].index + 1]
                 /\ \A j \in 1..Len(data) :
                       ~data[j].skip =>
                           Cardinality({n \in 1..Len(items) : items[n].index = j - 1}) = 1
                 /\ \A n \in 1..Len(items) - 1 : items[n].index < items[n + 1].index

\* C6's case: the search finds one element of the dataset listed second and
\* the result is the two elements of that dataset.
C6_Witness ==
    /\ call.mode = "dataset"
    /\ Len(FirstSearch("xy")) = 1
    /\ Len(items) = 2
    /\ Metas[2].index = items[1].datasetIndex
    /\ ~items[1].element.skip
    /\ ~items[2].element.skip

\* The dataset, axis, value and flag of a searchRange call.
SearchMeta == Metas[call.meta]

SearchAxis == call.options.axis

SearchValue == PositionValue(Position, SearchAxis)

Eligible ==
    /\ SearchMeta.iScale.axis # "none"
    /\ SearchAxis = SearchMeta.iScale.axis
    /\ SearchMeta.sorted
    /\ Len(SearchMeta.data) > 0

InReturnedRange(j) == range.lo <= j - 1 /\ j - 1 <= range.hi

\* C7: for a dataset sorted along the query axis, searchRange returns a range
\* that holds every index whose key equals the value and, with intersect set,
\* shared options and a first-element range r, every index whose key lies in
\* [value - r, value + r].
C7_RangeCorrectness ==
    (call.mode = "searchRange" /\ SearchMeta.sorted
        /\ SearchAxis = SearchMeta.iScale.axis) =>
        \A j \in 1..Len(SearchMeta.data) :
           LET key == Key(SearchMeta.data[j], SearchAxis)
           IN  /\ key = SearchValue => InReturnedRange(j)
               /\ (/\ call.options.intersect
                   /\ SearchMeta.sharedOptions
                   /\ SearchMeta.data[1].range # {}
                   /\ Abs(key - SearchValue) <= RangeValue(SearchMeta.data[1]))
                  => InReturnedRange(j)

\* C8: for a dataset that is not flagged sorted, a query axis that is not the
\* index scale's, no index scale or an empty dataset, searchRange returns
\* {lo: 0, hi: length - 1}.
C8_FallbackSafety ==
    (call.mode = "searchRange" /\ ~Eligible) => range = FullRange(SearchMeta.data)

\* C8's case: a dataset not flagged sorted is searched on its index axis for
\* a value whose lookup would have cut the range.
C8_Witness ==
    /\ call.mode = "searchRange"
    /\ ~SearchMeta.sorted
    /\ SearchAxis = SearchMeta.iScale.axis
    /\ ~call.options.intersect
    /\ Len(SearchMeta.data) = 3
    /\ range = FullRange(SearchMeta.data)
    /\ lookupMethod(SearchMeta.iScale, SearchMeta.data, SearchAxis, SearchValue)
          # FullRange(SearchMeta.data)

RangedSearchUnavailable ==
    ~SearchMeta.sharedOptions \/ SearchMeta.data[1].range = {}

\* C9 as claimed: for an eligible dataset with intersect set and no shared
\* options or no range of the first element, searchRange returns the range of
\* the non-intersect call for the same value.
C9_ExactFallback ==
    (call.mode = "searchRange" /\ Eligible /\ call.options.intersect
        /\ RangedSearchUnavailable) =>
        range = binarySearch(SearchMeta, SearchAxis, SearchValue, FALSE)

\* C9 as amended: for an eligible dataset with intersect set and no shared
\* options or no range of the first element, searchRange returns
\* {lo: 0, hi: length - 1}.
C9_FullFallback ==
    (call.mode = "searchRange" /\ Eligible /\ call.options.intersect
        /\ RangedSearchUnavailable) =>
        range = FullRange(SearchMeta.data)

\* C9's case: such a call where the exact-value lookup is a smaller range.
C9_Witness ==
    /\ call.mode = "searchRange"
    /\ Eligible
    /\ call.options.intersect
    /\ RangedSearchUnavailable
    /\ range = FullRange(SearchMeta.data)
    /\ binarySearch(SearchMeta, SearchAxis, SearchValue, FALSE) # range

\* C10: in nearest mode without intersect, inside the chart area and on the
\* index axis of sorted datasets, the result is the set of non-skipped
\* visible elements at the minimum distance over all of them.
C10_FullScanEquivalence ==
    (/\ call.mode = "nearest"
     /\ ~call.options.intersect
     /\ InArea
     /\ \A i \in 1..Len(Metas) :
           Metas[i].sorted /\ Metas[i].iScale.axis = AxisOr(call.options, "xy"))
    => ItemSet = AtMinimum(AxisOr(call.options, "xy"), VisibleMatches)

====
